---- MODULE Spec2Model ----
(***************************************************************************)
(* Model of podcastindex_inspector.py: the duplicate analyzer              *)
(* (find_duplicate_episodes, export_duplicates) as operators computed the  *)
(* way the code computes them, and main() as a state machine over the      *)
(* command line, the credential step, the two directory requests and the   *)
(* report step.                                                            *)
(***************************************************************************)
EXTENDS Integers, Sequences, FiniteSets, TLC

VARIABLES
    argv,        \* the raw command line: flags and their texts
    config,      \* the credential file: "absent" or "complete"
    pc,          \* main()'s position
    args,        \* the argparse namespace
    requests,    \* every HTTP request issued so far, with its response
    podcast,     \* the feed dict main() holds after the lookup
    episodes,    \* the episode list main() / the analyzer holds
    duplicates,  \* the result of find_duplicate_episodes
    exported,    \* the result of export_duplicates
    files,       \* export files written: each one its list of records
    stdout,      \* the lines printed, by kind
    error,       \* the fatal error that ended the run, if any
    exit_code    \* the process's exit status (-1 while running)

vars == <<argv, config, pc, args, requests, podcast, episodes, duplicates,
          exported, files, stdout, error, exit_code>>

----------------------------------------------------------------------------
(* Bounds of the model *)

\* longest episode list given to the analyzer on its own
MaxLen == 3
\* longest items list a directory response carries in a modelled run
MaxItems == 2

----------------------------------------------------------------------------
(* Python values.  Every value is a record of one shape so that values of  *)
(* different Python types can be compared: kind, a string payload (a       *)
(* sequence of characters) and an integer payload.                         *)

\* a dict key that is not there (what dict.get sees before its default)
Missing == [kind |-> "missing", s |-> <<>>, n |-> 0]
PyNone == [kind |-> "none", s |-> <<>>, n |-> 0]
PyStr(chars) == [kind |-> "str", s |-> chars, n |-> 0]
PyInt(k) == [kind |-> "int", s |-> <<>>, n |-> k]
\* a non-empty JSON array: truthy, unhashable, without a strip method
PyList == [kind |-> "list", s |-> <<>>, n |-> 0]

\* dict.get(key, default) on an already selected slot
Get(slot, default) == IF slot = Missing THEN default ELSE slot

\* bool(v)
Truthy(v) ==
    CASE v.kind = "str" -> v.s # <<>>
      [] v.kind = "int" -> v.n # 0
      [] v.kind = "list" -> TRUE
      [] OTHER -> FALSE

\* whether v can be a dict key
Hashable(v) == v.kind # "list"

Whitespace == {" ", "\t"}

RECURSIVE LStrip(_)
LStrip(chars) ==
    IF chars # <<>> /\ Head(chars) \in Whitespace
    THEN LStrip(Tail(chars))
    ELSE chars

RECURSIVE RStrip(_)
RStrip(chars) ==
    IF chars # <<>> /\ chars[Len(chars)] \in Whitespace
    THEN RStrip(SubSeq(chars, 1, Len(chars) - 1))
    ELSE chars

\* str.strip()
Strip(chars) == RStrip(LStrip(chars))

----------------------------------------------------------------------------
(* find_duplicate_episodes *)

\* the slots of an episode dict the program reads
Episode(id, title, number) ==
    [id |-> id, title |-> title, episode |-> number,
     datePublished |-> Missing, enclosureUrl |-> Missing]

\* d[key].append(episode), creating d[key] = [] first when key is new; the
\* dict is kept as its items in insertion order
DictAppend(groups, key, episode) ==
    IF \E j \in 1..Len(groups) : groups[j].key = key
    THEN [j \in 1..Len(groups) |->
            IF groups[j].key = key
            THEN [groups[j] EXCEPT !.episodes = Append(@, episode)]
            ELSE groups[j]]
    ELSE Append(groups, [key |-> key, episodes |-> <<episode>>])

TitleOfUnstripped(episode) ==
    LET raw == Get(episode.title, PyStr(<<>>))
    IN  [raised |-> raw.kind # "str", value |-> raw]

\* title = episode.get('title', '').strip(): whether the call raised (the
\* value has no strip method) and the stripped title
TitleOf(episode) ==
    LET raw == Get(episode.title, PyStr(<<>>))
    IN  IF raw.kind = "str"
        THEN [raised |-> FALSE, value |-> PyStr(Strip(raw.s))]
        ELSE [raised |-> TRUE, value |-> raw]

\* the first loop: group the episodes by stripped, non-empty title
RECURSIVE GroupByTitle(_, _, _)
GroupByTitle(eps, i, acc) ==
    IF i > Len(eps) THEN [raised |-> FALSE, groups |-> acc]
    ELSE LET t == TitleOf(eps[i])
         IN  IF t.raised THEN [raised |-> TRUE, groups |-> acc]
             ELSE IF Truthy(t.value)
                  THEN GroupByTitle(eps, i + 1, DictAppend(acc, t.value, eps[i]))
                  ELSE GroupByTitle(eps, i + 1, acc)

\* if episode_num:
NumberEligible(episode_num) == Truthy(episode_num)

\* the second loop: group the episodes by truthy episode number
RECURSIVE GroupByNumber(_, _, _)
GroupByNumber(eps, i, acc) ==
    IF i > Len(eps) THEN [raised |-> FALSE, groups |-> acc]
    ELSE LET episode_num == Get(eps[i].episode, PyNone)
         IN  IF NumberEligible(episode_num)
             THEN IF Hashable(episode_num)
                  THEN GroupByNumber(eps, i + 1,
                                     DictAppend(acc, episode_num, eps[i]))
                  ELSE [raised |-> TRUE, groups |-> acc]
             ELSE GroupByNumber(eps, i + 1, acc)

IsDuplicateGroupNonEmpty(group) == Len(group.episodes) > 0

\* if len(episodes) > 1
IsDuplicateGroup(group) == Len(group.episodes) > 1

NoDuplicates == [raised |-> FALSE, by_title |-> <<>>, by_number |-> <<>>]

find_duplicate_episodes(eps) ==
    LET episodes_by_title == GroupByTitle(eps, 1, <<>>)
        episodes_by_number == GroupByNumber(eps, 1, <<>>)
    IN  IF episodes_by_title.raised \/ episodes_by_number.raised
        THEN [raised |-> TRUE, by_title |-> <<>>, by_number |-> <<>>]
        ELSE [raised |-> FALSE,
              by_title |-> SelectSeq(episodes_by_title.groups, IsDuplicateGroup),
              by_number |-> SelectSeq(episodes_by_number.groups, IsDuplicateGroup)]

----------------------------------------------------------------------------
(* export_duplicates *)

\* one record of the export list
ExportRecord(episode, type, value) ==
    [id |-> Get(episode.id, PyNone),
     title |-> Get(episode.title, PyNone),
     episode_number |-> Get(episode.episode, PyNone),
     date_published |-> Get(episode.datePublished, PyNone),
     url |-> Get(episode.enclosureUrl, PyNone),
     duplicate_type |-> type,
     duplicate_value |-> value]

AlreadyExportedNever(export_list, episode_id) == FALSE

\* any(e['id'] == episode_id for e in episodes_to_export)
AlreadyExported(export_list, episode_id) ==
    \E k \in 1..Len(export_list) : export_list[k].id = episode_id

\* the first loop: every episode of every by-title group, unconditionally
RECURSIVE TitlePass(_, _, _, _)
TitlePass(groups, g, e, acc) ==
    IF g > Len(groups) THEN acc
    ELSE IF e > Len(groups[g].episodes) THEN TitlePass(groups, g + 1, 1, acc)
    ELSE TitlePass(groups, g, e + 1,
                   Append(acc, ExportRecord(groups[g].episodes[e], "title",
                                            groups[g].key)))

\* the second loop: every episode of every by-number group whose id is not
\* in the list yet
RECURSIVE NumberPass(_, _, _, _)
NumberPass(groups, g, e, acc) ==
    IF g > Len(groups) THEN acc
    ELSE IF e > Len(groups[g].episodes) THEN NumberPass(groups, g + 1, 1, acc)
    ELSE LET episode == groups[g].episodes[e]
             episode_id == Get(episode.id, PyNone)
         IN  IF ~AlreadyExported(acc, episode_id)
             THEN NumberPass(groups, g, e + 1,
                             Append(acc, ExportRecord(episode, "episode_number",
                                                      groups[g].key)))
             ELSE NumberPass(groups, g, e + 1, acc)

EpisodesToExportNumberFirst(dups) ==
    LET numbers == NumberPass(dups.by_number, 1, 1, <<>>)
        titles == TitlePass(dups.by_title, 1, 1, <<>>)
    IN  numbers \o SelectSeq(titles, LAMBDA r : ~AlreadyExported(numbers, r.id))

\* episodes_to_export as the two loops leave it
EpisodesToExport(dups) ==
    NumberPass(dups.by_number, 1, 1, TitlePass(dups.by_title, 1, 1, <<>>))

NothingToExportNever(dups) == FALSE

\* if not duplicate_titles and not duplicate_numbers
NothingToExport(dups) == dups.by_title = <<>> /\ dups.by_number = <<>>

\* export_duplicates up to the point where the file is opened: whether a
\* file is to be written, and the list that goes into it
export_duplicates(dups) ==
    IF NothingToExport(dups)
    THEN [file |-> FALSE, records |-> <<>>]
    ELSE [file |-> TRUE, records |-> EpisodesToExport(dups)]

----------------------------------------------------------------------------
(* The directory API: responses and how the two client layers read them *)

\* response.get('feed', {}) when the envelope has no feed
EmptyFeed == [id |-> Missing]
NoFeed == [present |-> FALSE, id |-> Missing]
NoItems == [present |-> FALSE, list |-> <<>>]

\* What comes back for a request: whether the round trip worked at all, the
\* HTTP status, whether the body is JSON, and the envelope's slots
Response(net, status_code, json, status, description, feed, items) ==
    [net |-> net, status_code |-> status_code, json |-> json,
     status |-> status, description |-> description,
     feed |-> feed, items |-> items]

Descriptions == {Missing, PyStr(<<"d">>)}

\* the responses that never yield an envelope
BrokenResponses ==
    {Response("fail", 0, FALSE, "", Missing, NoFeed, NoItems),
     Response("ok", 500, TRUE, "false", PyStr(<<"d">>), NoFeed, NoItems),
     Response("ok", 200, FALSE, "", Missing, NoFeed, NoItems)}

FeedResponses ==
    BrokenResponses \cup
    {Response("ok", 200, TRUE, st, d, f, NoItems) :
        st \in {"true", "false"}, d \in Descriptions,
        f \in {NoFeed, [present |-> TRUE, id |-> PyInt(7)]}}

\* the episodes a modelled run's response carries
RunEpisodes ==
    {Episode(id, title, number) :
        id \in {PyInt(1), PyInt(2)}, title \in {PyStr(<<"a">>), PyNone},
        number \in {Missing, PyInt(1)}}

RunLists == UNION {[1..n -> RunEpisodes] : n \in 0..MaxItems}

EpisodeResponses ==
    BrokenResponses \cup
    {Response("ok", 200, TRUE, "false", d, NoFeed, NoItems) : d \in Descriptions}
    \cup {Response("ok", 200, TRUE, "true", Missing, NoFeed, NoItems)}
    \cup {Response("ok", 200, TRUE, "true", Missing, NoFeed,
                   [present |-> TRUE, list |-> l]) : l \in RunLists}

NoError == [kind |-> "none", status_code |-> 0, description |-> PyNone]

\* PodcastIndexAPI.get_*: the exception the client raises for a response, or
\* NoError when it returns response.json()
ClientError(r) ==
    IF r.net = "fail"
    THEN [kind |-> "transport", status_code |-> 0, description |-> PyNone]
    ELSE IF r.status_code # 200
    THEN \* the message holds the status and response.text, the body
         [kind |-> "http", status_code |-> r.status_code,
          description |-> Get(r.description, PyNone)]
    ELSE IF ~r.json
    THEN [kind |-> "decode", status_code |-> r.status_code,
          description |-> PyNone]
    ELSE NoError

EnvelopeOkAlways(r) == TRUE

\* response.get('status') == 'true'
EnvelopeOk(r) == r.status = "true"

\* PodcastInspector.get_*: the exception raised for a response, or NoError
InspectorError(r) ==
    IF ClientError(r) # NoError THEN ClientError(r)
    ELSE IF ~EnvelopeOk(r)
    THEN [kind |-> "api", status_code |-> r.status_code,
          description |-> Get(r.description, PyNone)]
    ELSE NoError

----------------------------------------------------------------------------
(* main() *)

NoArgv == [feed_url |-> Missing, feed_id |-> Missing, list |-> FALSE,
           find_duplicates |-> FALSE, export_only |-> FALSE]
NotExported == [file |-> FALSE, records |-> <<>>]

\* the command lines tried: each flag left out or given with a text
FeedUrlTexts == {Missing, PyStr(<<>>), PyStr(<<"u">>)}
FeedIdTexts == {Missing, PyStr(<<"0">>), PyStr(<<"7">>), PyStr(<<"x">>)}

Init ==
    /\ argv \in [feed_url : FeedUrlTexts, feed_id : FeedIdTexts,
                 list : BOOLEAN, find_duplicates : BOOLEAN,
                 export_only : BOOLEAN]
    /\ config \in {"absent", "complete"}
    /\ pc = "parse"
    /\ args = NoArgv
    /\ requests = <<>>
    /\ podcast = EmptyFeed
    /\ episodes = <<>>
    /\ duplicates = NoDuplicates
    /\ exported = NotExported
    /\ files = <<>>
    /\ stdout = <<>>
    /\ error = NoError
    /\ exit_code = -1

DigitValue(c) ==
    CASE c = "0" -> 0 [] c = "1" -> 1 [] c = "2" -> 2 [] c = "3" -> 3
      [] c = "4" -> 4 [] c = "5" -> 5 [] c = "6" -> 6 [] c = "7" -> 7
      [] c = "8" -> 8 [] c = "9" -> 9

IsDigits(chars) ==
    /\ chars # <<>>
    /\ \A i \in 1..Len(chars) :
          chars[i] \in {"0", "1", "2", "3", "4", "5", "6", "7", "8", "9"}

RECURSIVE IntOf(_)
IntOf(chars) ==
    IF chars = <<>> THEN 0
    ELSE 10 * IntOf(SubSeq(chars, 1, Len(chars) - 1))
         + DigitValue(chars[Len(chars)])

\* parser.parse_args(): a flag left out is None, --feed-id goes through int
ParsedArgs(raw) ==
    [feed_url |-> Get(raw.feed_url, PyNone),
     feed_id |-> IF raw.feed_id = Missing THEN PyNone
                 ELSE PyInt(IntOf(raw.feed_id.s)),
     list |-> raw.list,
     find_duplicates |-> raw.find_duplicates,
     export_only |-> raw.export_only]

\* type=int refuses the text of --feed-id
BadFeedId(raw) == raw.feed_id # Missing /\ ~IsDigits(raw.feed_id.s)

FeedArgumentMissingEither(a) == ~Truthy(a.feed_url) \/ ~Truthy(a.feed_id)

\* if not args.feed_url and not args.feed_id
FeedArgumentMissing(a) == ~Truthy(a.feed_url) /\ ~Truthy(a.feed_id)

\* parser.error(...): the usage message, then exit status 2
ParserError ==
    /\ error' = [kind |-> "usage", status_code |-> 0, description |-> PyNone]
    /\ stdout' = Append(stdout, "usage")
    /\ exit_code' = 2
    /\ pc' = "exited"

MainExceptExitZero(e, out) ==
    /\ error' = e
    /\ stdout' = Append(out, "Error")
    /\ exit_code' = 0
    /\ pc' = "exited"

MainExceptCarryOn(e, out) ==
    /\ error' = e
    /\ stdout' = Append(out, "Error")
    /\ exit_code' = exit_code
    /\ pc' = pc

\* except Exception as e: print(f"Error: {e}"); sys.exit(1)
MainExcept(e, out) ==
    /\ error' = e
    /\ stdout' = Append(out, "Error")
    /\ exit_code' = 1
    /\ pc' = "exited"

\* args = parser.parse_args() and the check of the required flags
ParseArgs ==
    /\ pc = "parse"
    /\ IF BadFeedId(argv)
       THEN ParserError /\ UNCHANGED args
       ELSE /\ args' = ParsedArgs(argv)
            /\ IF FeedArgumentMissing(args')
               THEN ParserError
               ELSE /\ pc' = "config"
                    /\ UNCHANGED <<stdout, error, exit_code>>
    /\ UNCHANGED <<argv, config, requests, podcast, episodes, duplicates,
                   exported, files>>

\* setup_config(): the credentials are read from the file, or asked for and
\* saved; input() or the write can fail, outside main()'s try
SetupConfig ==
    /\ pc = "config"
    /\ \/ /\ config = "complete"
          /\ pc' = "lookup"
          /\ UNCHANGED <<config, stdout, error, exit_code>>
       \/ /\ config # "complete"
          /\ config' = "complete"
          /\ stdout' = Append(stdout, "credentials not found")
          /\ pc' = "lookup"
          /\ UNCHANGED <<error, exit_code>>
       \/ /\ config # "complete"
          /\ stdout' = Append(stdout, "credentials not found")
          /\ error' = [kind |-> "uncaught", status_code |-> 0,
                       description |-> PyNone]
          /\ exit_code' = 1
          /\ pc' = "exited"
          /\ UNCHANGED config
    /\ UNCHANGED <<argv, args, requests, podcast, episodes, duplicates,
                   exported, files>>

\* the feed lookup: by URL when one is given, else by id
FeedLookup ==
    /\ pc = "lookup"
    /\ \E r \in FeedResponses :
         LET by_url == Truthy(args.feed_url)
             request == [endpoint |-> IF by_url THEN "podcasts/byfeedurl"
                                      ELSE "podcasts/byfeedid",
                         param |-> IF by_url THEN args.feed_url
                                   ELSE args.feed_id,
                         response |-> r]
             said == Append(stdout, IF by_url THEN "Getting podcast by URL"
                                    ELSE "Getting podcast by ID")
         IN  /\ requests' = Append(requests, request)
             /\ IF InspectorError(r) # NoError
                THEN /\ MainExcept(InspectorError(r), said)
                     /\ UNCHANGED podcast
                ELSE /\ podcast' = IF r.feed.present THEN [id |-> r.feed.id]
                                   ELSE EmptyFeed
                     /\ stdout' = Append(said, "Podcast")
                     /\ pc' = "fetch"
                     /\ UNCHANGED <<error, exit_code>>
    /\ UNCHANGED <<argv, config, args, episodes, duplicates, exported, files>>

\* the episode fetch for the id of the feed the lookup returned
EpisodeFetch ==
    /\ pc = "fetch"
    /\ \E r \in EpisodeResponses :
         LET feed_id == Get(podcast.id, PyNone)
             request == [endpoint |-> "episodes/byfeedid", param |-> feed_id,
                         response |-> r]
             said == Append(stdout, "Getting episodes")
         IN  /\ requests' = Append(requests, request)
             /\ IF InspectorError(r) # NoError
                THEN /\ MainExcept(InspectorError(r), said)
                     /\ UNCHANGED episodes
                ELSE /\ episodes' = IF r.items.present THEN r.items.list
                                    ELSE <<>>
                     /\ stdout' = said
                     /\ pc' = "report"
                     /\ UNCHANGED <<error, exit_code>>
    /\ UNCHANGED <<argv, config, args, podcast, duplicates, exported, files>>

\* print_episodes: the heading (the lines per episode only read the dict)
print_episodes(out) == Append(out, "Found episodes")

\* print_duplicates
print_duplicates(out, dups) ==
    IF dups.by_title = <<>> /\ dups.by_number = <<>>
    THEN Append(out, "No duplicate episodes found.")
    ELSE Append(out, "=== Duplicate Episodes ===")

\* if args.export_only (inside if args.find_duplicates)
ExportWanted(a) == a.export_only

\* the rest of main(): the listing, the analysis, its printing and the
\* export; open() on the export file can fail
Report ==
    /\ pc = "report"
    /\ LET listed == IF args.list THEN print_episodes(stdout) ELSE stdout
           dups == find_duplicate_episodes(episodes)
           printed == print_duplicates(listed, dups)
           exp == export_duplicates(dups)
       IN  IF ~args.find_duplicates
           THEN /\ stdout' = listed
                /\ exit_code' = 0
                /\ pc' = "exited"
                /\ UNCHANGED <<duplicates, exported, files, error>>
           ELSE IF dups.raised
           THEN /\ MainExcept([kind |-> "analyzer", status_code |-> 0,
                               description |-> PyNone], listed)
                /\ duplicates' = dups
                /\ UNCHANGED <<exported, files>>
           ELSE /\ duplicates' = dups
                /\ IF ~ExportWanted(args)
                   THEN /\ stdout' = printed
                        /\ exit_code' = 0
                        /\ pc' = "exited"
                        /\ UNCHANGED <<exported, files, error>>
                   ELSE IF ~exp.file
                   THEN /\ exported' = exp
                        /\ stdout' = Append(printed,
                               "No duplicate episodes found to export.")
                        /\ exit_code' = 0
                        /\ pc' = "exited"
                        /\ UNCHANGED <<files, error>>
                   ELSE /\ exported' = exp
                        /\ \/ /\ files' = Append(files, exp.records)
                              /\ stdout' = Append(Append(printed, "Exporting"),
                                                  "Export complete")
                              /\ exit_code' = 0
                              /\ pc' = "exited"
                              /\ UNCHANGED error
                           \/ /\ MainExcept([kind |-> "io", status_code |-> 0,
                                             description |-> PyNone],
                                            Append(printed, "Exporting"))
                              /\ UNCHANGED files
    /\ UNCHANGED <<argv, config, args, requests, podcast, episodes>>

Next == ParseArgs \/ SetupConfig \/ FeedLookup \/ EpisodeFetch \/ Report

Spec == Init /\ [][Next]_vars

----------------------------------------------------------------------------
(* The analyzer on its own: an episode list is given, find_duplicate_episodes *)
(* is applied to it and export_duplicates to its result.                      *)

\* the variables of main() that the analyzer does not touch
NoRun ==
    /\ argv = NoArgv
    /\ config = "complete"
    /\ args = NoArgv
    /\ requests = <<>>
    /\ podcast = EmptyFeed
    /\ files = <<>>
    /\ stdout = <<>>
    /\ error = NoError
    /\ exit_code = -1

\* titles and episode numbers as the directory's JSON can carry them
AnalyzerTitles ==
    {Missing, PyNone, PyStr(<<" ">>), PyStr(<<"a">>), PyStr(<<" ", "a">>),
     PyStr(<<"b">>)}
AnalyzerNumbers == {Missing, PyNone, PyInt(0), PyInt(1), PyList}

\* the episode lists have pairwise different ids (the id is the position)
InitAnalyzer ==
    /\ NoRun
    /\ pc = "find"
    /\ \E n \in 0..MaxLen :
         \E f \in [1..n -> AnalyzerTitles \X AnalyzerNumbers] :
            episodes = [i \in 1..n |-> Episode(PyInt(i), f[i][1], f[i][2])]
    /\ duplicates = NoDuplicates
    /\ exported = NotExported

\* episode lists whose ids may repeat or be missing
ExportIds == {PyInt(1), PyInt(2), PyInt(3)}
ExportTitles == {Missing, PyStr(<<"a">>), PyStr(<<" ", "a">>)}
ExportNumbers == {Missing, PyInt(1), PyInt(2)}

InitExport ==
    /\ NoRun
    /\ pc = "find"
    /\ \E n \in 0..MaxLen :
         \E f \in [1..n -> ExportIds \X ExportTitles \X ExportNumbers] :
            episodes = [i \in 1..n |-> Episode(f[i][1], f[i][2], f[i][3])]
    /\ duplicates = NoDuplicates
    /\ exported = NotExported

\* duplicates = inspector.find_duplicate_episodes(episodes)
FindDuplicates ==
    /\ pc = "find"
    /\ duplicates' = find_duplicate_episodes(episodes)
    /\ pc' = IF duplicates'.raised THEN "raised" ELSE "found"
    /\ UNCHANGED <<argv, config, args, requests, podcast, episodes, exported,
                   files, stdout, error, exit_code>>

\* the list export_duplicates builds from the result
ExportDuplicates ==
    /\ pc = "found"
    /\ exported' = export_duplicates(duplicates)
    /\ pc' = "exported"
    /\ UNCHANGED <<argv, config, args, requests, podcast, episodes, duplicates,
                   files, stdout, error, exit_code>>

NextAnalyzer == FindDuplicates \/ ExportDuplicates

SpecAnalyzer == InitAnalyzer /\ [][NextAnalyzer]_vars

SpecExport == InitExport /\ [][NextAnalyzer]_vars

----------------------------------------------------------------------------
(* Vocabulary of the properties *)

IdOf(episode) == Get(episode.id, PyNone)

\* the episode is a member of some group of the mapping
InGroup(groups, episode) ==
    \E g \in 1..Len(groups) :
       \E e \in 1..Len(groups[g].episodes) : groups[g].episodes[e] = episode

\* the episode is a member of the group filed under key
InGroupOf(groups, key, episode) ==
    \E g \in 1..Len(groups) :
       /\ groups[g].key = key
       /\ \E e \in 1..Len(groups[g].episodes) : groups[g].episodes[e] = episode

DistinctIds(eps) ==
    \A i, j \in 1..Len(eps) : i # j => IdOf(eps[i]) # IdOf(eps[j])

NoTwoRecordsShareAnId(records) ==
    \A j, k \in 1..Len(records) : j # k => records[j].id # records[k].id

\* every record carrying this id is tagged type
AllTagged(records, id, type) ==
    \A k \in 1..Len(records) :
       records[k].id = id => records[k].duplicate_type = type

\* the title is a string of nothing but whitespace (or is not there)
BlankTitle(episode) ==
    LET raw == Get(episode.title, PyStr(<<>>))
    IN  /\ raw.kind = "str"
        /\ \A k \in 1..Len(raw.s) : raw.s[k] = " " \/ raw.s[k] = "\t"

\* the episode number is absent, null or 0
FalsyNumber(episode) ==
    episode.episode \in {Missing, PyNone, PyInt(0)}

Returned == pc \in {"found", "exported"}

\* the request got no successful answer: no round trip, a non-200 status, a
\* body that is no JSON, or an envelope whose status is not "true"
RequestFailed(r) ==
    r.net # "ok" \/ r.status_code # 200 \/ ~r.json \/ r.status # "true"

\* the API answered with an envelope whose status is not "true"
EnvelopeFailed(r) == r.net = "ok" /\ r.json /\ r.status # "true"

LookupEndpoints == {"podcasts/byfeedurl", "podcasts/byfeedid"}

----------------------------------------------------------------------------
(* C1 *)

\* C1 as stated: for every episode list, the export list built from the
\* result of find_duplicate_episodes holds no two records with the same id.
C1_NoDuplicateIds ==
    pc = "exported" => NoTwoRecordsShareAnId(exported.records)

\* C1 amended: when the ids of the episode list are pairwise different, the
\* export list holds no two records with the same id; for any list, two
\* records can share an id only when both are tagged "title" (two episodes of
\* by-title groups carry that id), never when one is tagged "episode_number".
C1_NoDuplicateIdsAmongDistinct ==
    pc = "exported" =>
        /\ DistinctIds(episodes) => NoTwoRecordsShareAnId(exported.records)
        /\ \A j, k \in 1..Len(exported.records) :
              (j # k /\ exported.records[j].id = exported.records[k].id)
                 => /\ exported.records[j].duplicate_type = "title"
                    /\ exported.records[k].duplicate_type = "title"

\* an episode list with different ids, one episode in both groupings, and an
\* export list of three records
C1_Witness ==
    /\ pc = "exported"
    /\ DistinctIds(episodes)
    /\ Len(exported.records) = 3
    /\ \E i \in 1..Len(episodes) :
          /\ InGroup(duplicates.by_title, episodes[i])
          /\ InGroup(duplicates.by_number, episodes[i])

----------------------------------------------------------------------------
(* C2 *)

\* the record of an episode of both groupings: tagged "title" with the key of
\* its title group, and no record with its id tagged otherwise
TitleWins(i) ==
    LET ep == episodes[i]
    IN  (InGroup(duplicates.by_title, ep) /\ InGroup(duplicates.by_number, ep))
        => /\ \E k \in 1..Len(exported.records) :
                 /\ exported.records[k].id = IdOf(ep)
                 /\ exported.records[k].duplicate_type = "title"
                 /\ InGroupOf(duplicates.by_title,
                              exported.records[k].duplicate_value, ep)
           /\ AllTagged(exported.records, IdOf(ep), "title")

OnlyInNumberGroup(i) ==
    /\ ~InGroup(duplicates.by_title, episodes[i])
    /\ InGroup(duplicates.by_number, episodes[i])

\* some episode of a by-title group carries the id of episode i
IdTakenByTitleGroup(i) ==
    \E j \in 1..Len(episodes) :
       /\ IdOf(episodes[j]) = IdOf(episodes[i])
       /\ InGroup(duplicates.by_title, episodes[j])

\* the id of episode i has a record, and every record with that id is
\* tagged "episode_number"
TaggedNumber(i) ==
    /\ \E k \in 1..Len(exported.records) :
          exported.records[k].id = IdOf(episodes[i])
    /\ AllTagged(exported.records, IdOf(episodes[i]), "episode_number")

\* no other episode of the list carries the id of episode i
IdIsItsOwn(i) ==
    \A j \in 1..Len(episodes) :
       j # i => IdOf(episodes[j]) # IdOf(episodes[i])

\* the one record with the id of episode i names the key of its number group
ValueIsItsNumber(i) ==
    \A k \in 1..Len(exported.records) :
       exported.records[k].id = IdOf(episodes[i])
          => InGroupOf(duplicates.by_number,
                       exported.records[k].duplicate_value, episodes[i])

\* C2 as stated: an episode of both a by-title and a by-number group is
\* tagged "title" with the title key, never "episode_number"; an episode that
\* is only in a by-number group is tagged "episode_number".
C2_TitlePrecedence ==
    pc = "exported" =>
        \A i \in 1..Len(episodes) :
           /\ TitleWins(i)
           /\ OnlyInNumberGroup(i) => TaggedNumber(i)

\* C2 amended: an episode of both groupings is tagged "title" with its title
\* key, never "episode_number"; an episode that is only in a by-number group
\* is tagged "episode_number" (with its number as duplicate_value when no
\* other episode carries its id) unless an episode of a by-title group
\* carries the same id, and then every record with that id is tagged "title".
C2_TitlePrecedenceById ==
    pc = "exported" =>
        \A i \in 1..Len(episodes) :
           /\ TitleWins(i)
           /\ (OnlyInNumberGroup(i) /\ ~IdTakenByTitleGroup(i))
                 => TaggedNumber(i)
           /\ (OnlyInNumberGroup(i) /\ IdIsItsOwn(i))
                 => ValueIsItsNumber(i)
           /\ (OnlyInNumberGroup(i) /\ IdTakenByTitleGroup(i))
                 => AllTagged(exported.records, IdOf(episodes[i]), "title")

\* different ids, one episode in both groupings and one only in a by-number
\* group
C2_Witness ==
    /\ pc = "exported"
    /\ DistinctIds(episodes)
    /\ \E i, j \in 1..Len(episodes) :
          /\ InGroup(duplicates.by_title, episodes[i])
          /\ InGroup(duplicates.by_number, episodes[i])
          /\ OnlyInNumberGroup(j)
          /\ TaggedNumber(j)
          /\ ValueIsItsNumber(j)

----------------------------------------------------------------------------
(* C3 *)

\* C3: every group of by_title and of by_number that
\* find_duplicate_episodes returns has at least 2 episodes.
C3_GroupsHaveTwo ==
    Returned =>
        /\ \A g \in 1..Len(duplicates.by_title) :
              Len(duplicates.by_title[g].episodes) >= 2
        /\ \A g \in 1..Len(duplicates.by_number) :
              Len(duplicates.by_number[g].episodes) >= 2

\* a result with a group in each mapping and an episode whose title and
\* number are eligible but shared with no other episode
C3_Witness ==
    /\ pc = "found"
    /\ duplicates.by_title # <<>>
    /\ \E i \in 1..Len(episodes) :
          /\ ~BlankTitle(episodes[i])
          /\ ~InGroup(duplicates.by_title, episodes[i])
          /\ ~FalsyNumber(episodes[i])
          /\ ~InGroup(duplicates.by_number, episodes[i])

----------------------------------------------------------------------------
(* C4 *)

\* C4: an episode whose title is empty or whitespace-only is in no by_title
\* group, and an episode whose number is absent, null or 0 is in no
\* by_number group, whatever the other episodes are.
C4_IneligibleLeftOut ==
    Returned =>
        \A i \in 1..Len(episodes) :
           /\ BlankTitle(episodes[i])
                 => ~InGroup(duplicates.by_title, episodes[i])
           /\ FalsyNumber(episodes[i])
                 => ~InGroup(duplicates.by_number, episodes[i])

\* two episodes with the same whitespace-only title that share a by-number
\* group, next to an episode without a usable number
C4_Witness ==
    /\ pc = "found"
    /\ \E i, j, k \in 1..Len(episodes) :
          /\ i # j
          /\ episodes[i].title = PyStr(<<" ">>)
          /\ episodes[j].title = PyStr(<<" ">>)
          /\ InGroup(duplicates.by_number, episodes[i])
          /\ InGroup(duplicates.by_number, episodes[j])
          /\ FalsyNumber(episodes[k])

----------------------------------------------------------------------------
(* C5 *)

\* C5: find_duplicate_episodes raises no error for any episode list; a
\* title or number that is missing, null or of an unexpected type only
\* leaves the episode out of that grouping.
C5_NeverRaises ==
    pc \in {"found", "raised", "exported"} => ~duplicates.raised

----------------------------------------------------------------------------
(* C6 *)

\* C6: when the API answers a request of the run with an envelope whose
\* status is not "true", the run aborts with an error carrying the
\* envelope's description, exits with code 1, issues no further request and
\* creates no export file.
C6_EnvelopeFailureAborts ==
    \A i \in 1..Len(requests) :
       EnvelopeFailed(requests[i].response) =>
          /\ i = Len(requests)
          /\ pc = "exited"
          /\ error.kind \in {"api", "http"}
          /\ error.kind = "api" <=> requests[i].response.status_code = 200
          /\ error.description = Get(requests[i].response.description, PyNone)
          /\ stdout[Len(stdout)] = "Error"
          /\ exit_code = 1
          /\ files = <<>>

\* the episode fetch of a run that asked for the export is answered 200
\* with status "false" and a description
C6_Witness ==
    /\ pc = "exited"
    /\ args.find_duplicates /\ args.export_only
    /\ Len(requests) = 2
    /\ requests[2].response.status_code = 200
    /\ EnvelopeFailed(requests[2].response)
    /\ error.description = PyStr(<<"d">>)

----------------------------------------------------------------------------
(* C7 *)

\* C7 as stated: a run that ends in a transport, upstream HTTP, API-logical
\* or usage error exits with code 1; a run that ends without a fatal error
\* exits with code 0.
C7_FatalExitsOne ==
    pc = "exited" =>
        /\ error.kind \in {"transport", "http", "api", "usage"}
              => exit_code = 1
        /\ error.kind = "none" => exit_code = 0

\* C7 amended: a run that ends in a transport, upstream HTTP or API-logical
\* error exits with code 1, a run that ends in a usage error exits with
\* code 2, and a run that ends without a fatal error exits with code 0.
C7_FatalExitsNonZero ==
    pc = "exited" =>
        /\ error.kind \in {"transport", "http", "api"} => exit_code = 1
        /\ error.kind = "usage" => exit_code = 2
        /\ error.kind = "none" => exit_code = 0

\* a run whose episode fetch fails in transport
C7_Witness ==
    /\ pc = "exited"
    /\ error.kind = "transport"
    /\ Len(requests) = 2
    /\ exit_code = 1

----------------------------------------------------------------------------
(* C8 *)

UrlSupplied == argv.feed_url # Missing
IdSupplied == argv.feed_id # Missing
UsageError == pc = "exited" /\ error.kind = "usage"

\* the first request is the lookup by URL, for the URL given
LookupByUrl ==
    /\ requests[1].endpoint = "podcasts/byfeedurl"
    /\ requests[1].param = argv.feed_url

\* the first request is the lookup by id, for the integer given
LookupById ==
    /\ requests[1].endpoint = "podcasts/byfeedid"
    /\ requests[1].param = PyInt(IntOf(argv.feed_id.s))

\* C8 as stated: a run with neither or both of --feed-url and --feed-id
\* ends in a usage error before any request; a run with exactly one of them
\* (any URL, any integer id) proceeds to the feed lookup for that flag.
C8_ExactlyOneRequired ==
    pc # "parse" =>
        /\ (UrlSupplied <=> IdSupplied)
              => (UsageError /\ requests = <<>>)
        /\ (UrlSupplied /\ ~IdSupplied)
              => (~UsageError /\ (requests # <<>> => LookupByUrl))
        /\ (IdSupplied /\ ~UrlSupplied /\ IsDigits(argv.feed_id.s))
              => (~UsageError /\ (requests # <<>> => LookupById))

UrlUsable == UrlSupplied /\ argv.feed_url.s # <<>>
IdUsable ==
    IdSupplied /\ IsDigits(argv.feed_id.s) /\ IntOf(argv.feed_id.s) # 0

\* C8 amended: at least one of --feed-url and --feed-id is required with a
\* usable value: a run ends in a usage error, before any request, exactly
\* when the text of --feed-id is no integer or when neither a non-empty URL
\* nor a non-zero id is given; every other run (both flags included) goes on
\* to the feed lookup, by URL when a non-empty URL is given, else by id.
C8_AtLeastOneRequired ==
    pc # "parse" =>
        /\ UsageError <=>
              \/ (IdSupplied /\ ~IsDigits(argv.feed_id.s))
              \/ (~UrlUsable /\ ~IdUsable)
        /\ UsageError => requests = <<>>
        /\ requests # <<>> =>
              IF UrlUsable THEN LookupByUrl ELSE LookupById

\* both flags given, and the lookup went out by URL
C8_Witness ==
    /\ argv.feed_url = PyStr(<<"u">>)
    /\ argv.feed_id = PyStr(<<"7">>)
    /\ Len(requests) = 1
    /\ LookupByUrl

----------------------------------------------------------------------------
(* C9 *)

\* C9: at most one feed lookup and at most one episode fetch are issued,
\* the fetch only after a successful lookup, and after the first failed
\* request no further request is issued and the run has terminated.
C9_SequentialNoRetry ==
    /\ Len(requests) <= 2
    /\ Len(requests) >= 1 => requests[1].endpoint \in LookupEndpoints
    /\ Len(requests) = 2 =>
          /\ requests[2].endpoint = "episodes/byfeedid"
          /\ ~RequestFailed(requests[1].response)
          /\ pc \in {"report", "exited"}
    /\ \A i \in 1..Len(requests) :
          RequestFailed(requests[i].response) =>
             /\ i = Len(requests)
             /\ pc = "exited"
             /\ exit_code # 0

\* the lookup succeeded and the fetch failed
C9_Witness ==
    /\ Len(requests) = 2
    /\ RequestFailed(requests[2].response)
    /\ pc = "exited"

----------------------------------------------------------------------------
(* C10 *)

\* C10: an export file is written only in a run with --find-duplicates and
\* --export-only in which the lookup and the fetch succeeded and a duplicate
\* group exists; in a run that analyzes an empty episode list both groupings
\* are empty, no file is written and "No duplicate episodes found." is
\* printed.
C10_ExportOnlyWithDuplicates ==
    /\ files # <<>> =>
          /\ args.find_duplicates /\ args.export_only
          /\ Len(requests) = 2
          /\ \A i \in 1..2 : ~RequestFailed(requests[i].response)
          /\ duplicates.by_title # <<>> \/ duplicates.by_number # <<>>
          /\ Len(files) = 1
          /\ files[1] # <<>>
    /\ (/\ pc = "exited"
        /\ args.find_duplicates
        /\ Len(requests) = 2
        /\ ~RequestFailed(requests[2].response)
        /\ episodes = <<>>)
          => /\ duplicates.by_title = <<>> /\ duplicates.by_number = <<>>
             /\ files = <<>>
             /\ \E k \in 1..Len(stdout) :
                   stdout[k] = "No duplicate episodes found."

\* a run that wrote its export file
C10_Witness ==
    /\ pc = "exited"
    /\ files # <<>>
    /\ exit_code = 0

====
